---------------------------- MODULE Spec2Model ----------------------------
(***************************************************************************)
(* Model of frontend/src/api/loginAPI.ts: the auth client of the Spotify   *)
(* playlist generator.                                                     *)
(*                                                                         *)
(* The module resolves API_BASE_URL once when it is evaluated, exports     *)
(* redirectToLogin (assigns window.location.href) and refreshAccessToken   *)
(* (an async function: one axios.post, an await, return res.data).         *)
(*                                                                         *)
(* The environment of the module is modelled next to it: the environment   *)
(* setting import.meta.env.VITE_API_URL, the browsing context              *)
(* (window.location) and the axios transport, which answers each request   *)
(* at a time and with an outcome of its own choosing.                      *)
(***************************************************************************)
EXTENDS Naturals, Sequences, FiniteSets

VARIABLES
    env,            \* import.meta.env.VITE_API_URL, a JS value
    loaded,         \* TRUE once the module body (lines 8-9) has been evaluated
    API_BASE_URL,   \* the module constant of line 8, a JS value
    console,        \* what console.log has printed (line 9)
    href,           \* window.location.href
    navigations,    \* the URLs assigned to window.location.href, in order
    requests,       \* the requests handed to axios, in order
    responses,      \* responses[r]: the promise axios returned for requests[r]
    calls           \* calls[i]: the i-th invocation of refreshAccessToken

vars == <<env, loaded, API_BASE_URL, console, href, navigations,
          requests, responses, calls>>

---------------------------------------------------------------------------
(* Bounds of the model.                                                    *)

MaxCalls == 2

MaxNavigations == 2

---------------------------------------------------------------------------
(* JS values: a string, or undefined.                                      *)

Undefined == [defined |-> FALSE]

Str(s) == [defined |-> TRUE, value |-> s]

\* a JS value is falsy when it is undefined or the empty string
Truthy(v) == v.defined /\ v.value # ""

\* `${v}` inside a template literal
Template(v) == IF v.defined THEN v.value ELSE "undefined"

DefaultUrl == "http://localhost:8000"

\* the settings the environment can hold: unset, or a string
EnvSettings == {Undefined, Str(""), Str("https://api.example.com")}

\* the page the application is on before any navigation
AppUrl == "http://localhost:5173/"

\* the refresh tokens callers pass; the client validates none of them
Tokens == {"", "abc123"}

\* TokenResponse payloads: refresh_token and scope are optional
Payloads ==
    { [access_token |-> "t", token_type |-> "bearer", expires_in |-> 3600],
      [access_token |-> "t", token_type |-> "bearer", expires_in |-> 3600,
       refresh_token |-> "abc123"],
      [access_token |-> "u", token_type |-> "bearer", expires_in |-> 60,
       refresh_token |-> "r2", scope |-> "user-top-read"] }

\* the errors the transport raises: network failure, non-2xx status
TransportErrors ==
    { [name |-> "AxiosError", code |-> "ERR_NETWORK", status |-> 0],
      [name |-> "AxiosError", code |-> "ERR_BAD_REQUEST", status |-> 401] }

---------------------------------------------------------------------------
(* Promises.                                                               *)

Pending == [kind |-> "pending"]

Fulfilled(v) == [kind |-> "fulfilled", value |-> v]

Rejected(e) == [kind |-> "rejected", reason |-> e]

\* the response object axios resolves with
AxiosResponse(data) == [data |-> data, status |-> 200]

---------------------------------------------------------------------------
(* The module.                                                             *)

\* variant: the fallback is forgotten
ResolveBaseUrl_NoFallback(v) == v

\* variant: the environment is not consulted
ResolveBaseUrl_IgnoreEnv(v) == Str(DefaultUrl)

\* line 8: import.meta.env.VITE_API_URL || "http://localhost:8000"
ResolveBaseUrl(v) == IF Truthy(v) THEN v ELSE Str(DefaultUrl)

\* line 28: `${API_BASE_URL}/auth/login?redirect=true`
LoginUrl == Template(API_BASE_URL) \o "/auth/login?redirect=true"

\* variant: the environment is read again at every call
RefreshUrl_ReadEnv == Template(ResolveBaseUrl(env)) \o "/auth/refresh"

\* line 37: `${API_BASE_URL}/auth/refresh`
RefreshUrl == Template(API_BASE_URL) \o "/auth/refresh"

\* lines 37-39: { refresh_token }
RefreshBody(refresh_token) == [refresh_token |-> refresh_token]

PostRequest(url, body) == [method |-> "POST", url |-> url, body |-> body]

Init ==
    /\ env \in EnvSettings
    /\ loaded = FALSE
    /\ API_BASE_URL = Undefined
    /\ console = << >>
    /\ href = AppUrl
    /\ navigations = << >>
    /\ requests = << >>
    /\ responses = << >>
    /\ calls = << >>

\* the environment setting changes (before or after the module is loaded)
SetEnv(v) ==
    /\ v # env
    /\ env' = v
    /\ UNCHANGED <<loaded, API_BASE_URL, console, href, navigations,
                   requests, responses, calls>>

\* lines 8-9: the module body is evaluated, once
LoadModule ==
    /\ ~loaded
    /\ loaded' = TRUE
    /\ API_BASE_URL' = ResolveBaseUrl(env)
    /\ console' = Append(console, Template(API_BASE_URL'))
    /\ UNCHANGED <<env, href, navigations, requests, responses, calls>>

\* variant: the login endpoint is also requested through axios
RedirectToLogin_ViaAxios ==
    /\ loaded
    /\ Len(navigations) < MaxNavigations
    /\ href' = LoginUrl
    /\ navigations' = Append(navigations, LoginUrl)
    /\ requests' = Append(requests, [method |-> "GET", url |-> LoginUrl,
                                     body |-> Undefined])
    /\ responses' = Append(responses, Pending)
    /\ UNCHANGED <<env, loaded, API_BASE_URL, console, calls>>

\* variant: a repeated call navigates relative to the current location
RedirectToLogin_Relative ==
    /\ loaded
    /\ Len(navigations) < MaxNavigations
    /\ href' = IF navigations = << >> THEN LoginUrl
               ELSE href \o "/auth/login?redirect=true"
    /\ navigations' = Append(navigations, href')
    /\ UNCHANGED <<env, loaded, API_BASE_URL, console, requests, responses,
                   calls>>

\* lines 27-29: redirectToLogin()
RedirectToLogin ==
    /\ loaded
    /\ Len(navigations) < MaxNavigations
    /\ href' = LoginUrl
    /\ navigations' = Append(navigations, LoginUrl)
    /\ UNCHANGED <<env, loaded, API_BASE_URL, console, requests, responses,
                   calls>>

\* lines 34-39: refreshAccessToken(refresh_token) up to its await: the
\* request is handed to axios, whose promise the call then awaits
RefreshAccessToken(refresh_token) ==
    /\ loaded
    /\ Len(calls) < MaxCalls
    /\ requests' = Append(requests,
                          PostRequest(RefreshUrl, RefreshBody(refresh_token)))
    /\ responses' = Append(responses, Pending)
    /\ calls' = Append(calls, [token |-> refresh_token,
                               awaiting |-> Len(requests) + 1,
                               promise |-> Pending])
    /\ UNCHANGED <<env, loaded, API_BASE_URL, console, href, navigations>>

\* axios answers request r with a 2xx response carrying data
TransportFulfil(r, data) ==
    /\ r \in 1..Len(responses)
    /\ responses[r] = Pending
    /\ responses' = [responses EXCEPT ![r] = Fulfilled(AxiosResponse(data))]
    /\ UNCHANGED <<env, loaded, API_BASE_URL, console, href, navigations,
                   requests, calls>>

\* axios fails request r with error e
TransportReject(r, e) ==
    /\ r \in 1..Len(responses)
    /\ responses[r] = Pending
    /\ responses' = [responses EXCEPT ![r] = Rejected(e)]
    /\ UNCHANGED <<env, loaded, API_BASE_URL, console, href, navigations,
                   requests, calls>>

\* variant: the awaited promise is kept in a variable shared by all calls
Awaited_Latest(i) == responses[Len(responses)]

\* line 37: the promise call i awaits, the one axios.post returned to it
Awaited(i) == responses[calls[i].awaiting]

\* variant: the call returns res instead of res.data
Settle_WholeResponse(res) ==
    IF res.kind = "fulfilled" THEN Fulfilled(res.value)
    ELSE Rejected(res.reason)

\* variant: a failure is caught and an empty TokenResponse returned
Settle_DefaultOnError(res) ==
    IF res.kind = "fulfilled" THEN Fulfilled(res.value.data)
    ELSE Fulfilled([access_token |-> "", token_type |-> "bearer",
                    expires_in |-> 0])

\* lines 37-40: the await yields res and the call returns res.data, or the
\* await throws the transport's error and the call rejects with it
Settle(res) ==
    IF res.kind = "fulfilled" THEN Fulfilled(res.value.data)
    ELSE Rejected(res.reason)

\* variant: the await is missing, the call settles at once
Resume_NoAwait(i) ==
    /\ i \in 1..Len(calls)
    /\ calls[i].promise = Pending
    /\ calls' = [calls EXCEPT ![i].promise =
                    IF Awaited(i) = Pending THEN Fulfilled(Undefined)
                    ELSE Settle(Awaited(i))]
    /\ UNCHANGED <<env, loaded, API_BASE_URL, console, href, navigations,
                   requests, responses>>

\* variant: a failed request is sent a second time
Resume_Retry(i) ==
    /\ i \in 1..Len(calls)
    /\ calls[i].promise = Pending
    /\ Awaited(i) # Pending
    /\ IF Awaited(i).kind = "rejected" /\ calls[i].awaiting = i
       THEN /\ requests' = Append(requests, requests[calls[i].awaiting])
            /\ responses' = Append(responses, Pending)
            /\ calls' = [calls EXCEPT ![i].awaiting = Len(requests) + 1]
       ELSE /\ calls' = [calls EXCEPT ![i].promise = Settle(Awaited(i))]
            /\ UNCHANGED <<requests, responses>>
    /\ UNCHANGED <<env, loaded, API_BASE_URL, console, href, navigations>>

\* lines 37-40: the continuation of call i after its await, run once the
\* awaited promise has settled
Resume(i) ==
    /\ i \in 1..Len(calls)
    /\ calls[i].promise = Pending
    /\ Awaited(i) # Pending
    /\ calls' = [calls EXCEPT ![i].promise = Settle(Awaited(i))]
    /\ UNCHANGED <<env, loaded, API_BASE_URL, console, href, navigations,
                   requests, responses>>

Next ==
    \/ \E v \in EnvSettings : SetEnv(v)
    \/ LoadModule
    \/ RedirectToLogin
    \/ \E t \in Tokens : RefreshAccessToken(t)
    \/ \E r \in 1..Len(responses), data \in Payloads : TransportFulfil(r, data)
    \/ \E r \in 1..Len(responses), e \in TransportErrors : TransportReject(r, e)
    \/ \E i \in 1..Len(calls) : Resume(i)

Spec == Init /\ [][Next]_vars

\* the event loop runs the continuation of every call whose awaited promise
\* has settled
FairSpec == Spec /\ \A i \in 1..MaxCalls : WF_vars(Resume(i))

---------------------------------------------------------------------------
(* Properties.                                                             *)

\* the request call i handed to the transport, and the transport's answer
RequestOf(i) == requests[calls[i].awaiting]

ResponseOf(i) == responses[calls[i].awaiting]

\* C1: every call of refreshAccessToken(t), for every token t including the
\* empty string, has issued exactly one request, a POST to
\* {base_url}/auth/refresh with body { refresh_token: t }; there are as many
\* requests as calls whether the exchanges have succeeded, failed or are
\* still open, so nothing is retried or sent twice.
C1_OnePostPerCall ==
    /\ Len(requests) = Len(calls)
    /\ \A i \in 1..Len(calls) :
         /\ calls[i].awaiting \in 1..Len(requests)
         /\ RequestOf(i).method = "POST"
         /\ RequestOf(i).url = API_BASE_URL.value \o "/auth/refresh"
         /\ RequestOf(i).body = [refresh_token |-> calls[i].token]
         /\ \A j \in 1..Len(calls) :
              calls[j].awaiting = calls[i].awaiting => j = i

\* a call with the empty token has failed and another call has succeeded
C1_Witness ==
    \E i, j \in 1..Len(calls) :
        /\ calls[i].token = ""
        /\ calls[i].promise.kind = "rejected"
        /\ calls[j].promise.kind = "fulfilled"
        /\ Len(requests) = 2

\* C2: when the transport has failed the exchange of a call, the call is
\* pending or rejected with exactly the transport's error; it has not resolved
\* with any TokenResponse, and the error is not wrapped or replaced.
C2_RejectsWithTransportError ==
    \A i \in 1..Len(calls) :
        ResponseOf(i).kind = "rejected" =>
            \/ calls[i].promise = Pending
            \/ /\ calls[i].promise.kind = "rejected"
               /\ calls[i].promise.reason = ResponseOf(i).reason

\* a call has rejected with the 401 error of the transport
C2_Witness ==
    \E i \in 1..Len(calls) :
        /\ ResponseOf(i).kind = "rejected"
        /\ calls[i].promise.kind = "rejected"
        /\ calls[i].promise.reason.status = 401

\* C3: when the backend has answered the POST of a call successfully with
\* payload P, the call is pending or resolved with a value equal to P, the
\* optional fields refresh_token and scope being present in the value exactly
\* when they are present in P.
C3_ResolvesWithPayload ==
    \A i \in 1..Len(calls) :
        ResponseOf(i).kind = "fulfilled" =>
            \/ calls[i].promise = Pending
            \/ LET P == ResponseOf(i).value.data
                   v == calls[i].promise.value
               IN  /\ calls[i].promise.kind = "fulfilled"
                   /\ v = P
                   /\ DOMAIN v = DOMAIN P
                   /\ ("refresh_token" \in DOMAIN v) = ("refresh_token" \in DOMAIN P)
                   /\ ("scope" \in DOMAIN v) = ("scope" \in DOMAIN P)

\* one call has resolved with a payload without the optional fields, another
\* with a payload that has both
C3_Witness ==
    \E i, j \in 1..Len(calls) :
        /\ calls[i].promise.kind = "fulfilled"
        /\ calls[j].promise.kind = "fulfilled"
        /\ DOMAIN calls[i].promise.value
             = {"access_token", "token_type", "expires_in"}
        /\ "scope" \in DOMAIN calls[j].promise.value
        /\ "refresh_token" \in DOMAIN calls[j].promise.value

\* C4: a step that navigates sets window.location.href to exactly
\* {base_url}/auth/login?redirect=true and changes nothing else: no request
\* is handed to the transport, the base URL and the environment are unchanged
\* and every refresh exchange, in flight or settled, is untouched.
C4_LoginOnlyNavigates ==
    [][ navigations' # navigations =>
          /\ href' = API_BASE_URL.value \o "/auth/login?redirect=true"
          /\ navigations' = Append(navigations, href')
          /\ UNCHANGED <<env, loaded, API_BASE_URL, console, requests,
                         responses, calls>> ]_vars

\* the login redirect has happened while a refresh exchange is in flight
C4_Witness ==
    /\ navigations # << >>
    /\ href = API_BASE_URL.value \o "/auth/login?redirect=true"
    /\ \E i \in 1..Len(calls) :
          calls[i].promise = Pending /\ ResponseOf(i) = Pending

\* C5 as stated: loading the module with the environment variable set to any
\* string V, the empty string included, resolves the base URL to V.
C5_Original ==
    [][ (~loaded /\ loaded' /\ env.defined) => API_BASE_URL' = env ]_vars

\* C5: loading the module with the environment variable set to a non-empty
\* string V resolves the base URL to V; set to the empty string, it resolves
\* to the default http://localhost:8000.
C5_NonEmptyEnvIsBaseUrl ==
    [][ (~loaded /\ loaded' /\ env.defined) =>
          /\ env.value # "" => API_BASE_URL' = env
          /\ env.value = "" => API_BASE_URL' = Str("http://localhost:8000") ]_vars

\* the module has been loaded with the variable set to a non-empty string
C5_Witness ==
    /\ loaded
    /\ API_BASE_URL = Str("https://api.example.com")
    /\ console = <<"https://api.example.com">>

\* C6: loading the module with the environment variable unset resolves the
\* base URL to the local-development default http://localhost:8000.
C6_UnsetEnvIsDefault ==
    [][ (~loaded /\ loaded' /\ ~env.defined) =>
          API_BASE_URL' = Str("http://localhost:8000") ]_vars

\* the module has been loaded to the default and the variable is unset
C6_Witness ==
    /\ loaded
    /\ ~env.defined
    /\ API_BASE_URL = Str("http://localhost:8000")
    /\ console = <<"http://localhost:8000">>
    /\ requests = << >>
    /\ navigations = << >>

\* C7: once the module is loaded it stays loaded and the base URL never
\* changes, whatever is called, whatever arrives and however the environment
\* setting changes; every request and every navigation targets that base URL.
C7_BaseUrlImmutable ==
    /\ [][ loaded => (loaded' /\ API_BASE_URL' = API_BASE_URL) ]_vars
    /\ [](\A r \in 1..Len(requests) :
             requests[r].url = API_BASE_URL.value \o "/auth/refresh")
    /\ [](\A n \in 1..Len(navigations) :
             navigations[n] = API_BASE_URL.value \o "/auth/login?redirect=true")

\* the environment now holds a setting that resolves to another base URL, and
\* a request and a navigation have been made and a call has settled
C7_Witness ==
    /\ loaded
    /\ ResolveBaseUrl(env) # API_BASE_URL
    /\ requests # << >>
    /\ navigations # << >>
    /\ \E i \in 1..Len(calls) : calls[i].promise # Pending

\* C8: overlapping calls are independent exchanges: each call awaits a
\* request of its own that carries its own token, and a settled call holds
\* the outcome of its own request, whatever the other calls and their
\* responses are and in whatever order the responses arrived.
C8_CallsIndependent ==
    \A i \in 1..Len(calls) :
        /\ \A j \in 1..Len(calls) :
              j # i => calls[j].awaiting # calls[i].awaiting
        /\ RequestOf(i).body.refresh_token = calls[i].token
        /\ calls[i].promise.kind = "fulfilled" =>
              /\ ResponseOf(i).kind = "fulfilled"
              /\ calls[i].promise.value = ResponseOf(i).value.data
        /\ calls[i].promise.kind = "rejected" =>
              /\ ResponseOf(i).kind = "rejected"
              /\ calls[i].promise.reason = ResponseOf(i).reason

\* two overlapping calls with different tokens: the later one has resolved
\* while the earlier one is still unanswered
C8_Witness ==
    /\ Len(calls) >= 2
    /\ calls[1].token # calls[2].token
    /\ calls[2].promise.kind = "fulfilled"
    /\ calls[1].promise = Pending
    /\ ResponseOf(1) = Pending

Settled(i) == i \in 1..Len(calls) /\ calls[i].promise # Pending

Answered(i) == i \in 1..Len(calls) /\ ResponseOf(i) # Pending

\* C9: a call stays pending until the transport has answered its request,
\* settles once (a settled call never changes again, and no call is ever
\* removed or aborted), and once the transport has answered it eventually
\* settles.
C9_SettlesExactlyOnce ==
    /\ [][ /\ Len(calls') >= Len(calls)
           /\ \A i \in 1..Len(calls) :
                /\ Settled(i) => calls'[i] = calls[i]
                /\ (~Settled(i) /\ calls'[i].promise # Pending) => Answered(i)
                /\ ~Answered(i) => calls'[i] = calls[i] ]_vars
    /\ \A i \in 1..MaxCalls : Answered(i) ~> Settled(i)

\* one call has settled after its answer while another is still in flight
C9_Witness ==
    \E i, j \in 1..Len(calls) :
        /\ Settled(i) /\ Answered(i)
        /\ ~Settled(j) /\ ~Answered(j)

\* C10: after any number n >= 1 of calls of redirectToLogin the location is
\* {base_url}/auth/login?redirect=true, as after one call, and every one of
\* the n navigations had that same target.
C10_RedirectIdempotent ==
    navigations # << >> =>
        /\ href = API_BASE_URL.value \o "/auth/login?redirect=true"
        /\ navigations[1] = href
        /\ \A n \in 1..Len(navigations) : navigations[n] = navigations[1]

\* redirectToLogin has been called at least twice
C10_Witness ==
    /\ Len(navigations) >= 2
    /\ href = API_BASE_URL.value \o "/auth/login?redirect=true"

===========================================================================
